---- MODULE Spec2Model ----
(***************************************************************************)
(* VersatileDigraph (student_code.py): a directed graph held in three      *)
(* tables, nodes (id -> value), edges (start -> end -> (weight, name)) and *)
(* edge_names (the set of edge names stored so far).                       *)
(*                                                                         *)
(* Encoding of Python values.  A node value or an edge weight is a pair    *)
(* <<type, n>>: <<"int", n>> is the int n, <<"float", n>> the float n.0,   *)
(* <<"str", 0>> a string.  A node id is a string; the ids in NonStrIds     *)
(* stand for ids that are not Python strings (the int 7).  The edge name   *)
(* NoName stands for edge_name=None.  A Python dict keeps its keys in      *)
(* insertion order: it is a sequence of <<key, value>> pairs with distinct *)
(* keys, and a Python list is a sequence.                                  *)
(***************************************************************************)
EXTENDS Integers, FiniteSets, Sequences, TLC

VARIABLES nodes, edges, edge_names, call, result, nops

vars == <<nodes, edges, edge_names, call, result, nops>>

\* number of calls made on one graph object
MaxOps == 2

StrIds == {"A", "B"}
NonStrIds == {"#7"}
Ids == StrIds \cup NonStrIds

\* None as a return value, and as the edge_name argument
None == "None"
NoName == "<None>"
GivenNames == {"e1", "edge_A_B"}
NameArgs == GivenNames \cup {NoName}
QueryNames == GivenNames \cup {"edge_B_A"}

DefaultValue == <<"int", 0>>
DefaultWeight == <<"int", 1>>
NodeValues == {DefaultValue, <<"float", 10>>, <<"str", 0>>}
EdgeNodeValues == {DefaultValue, <<"str", 0>>}
Weights == {<<"int", -1>>, <<"int", 0>>, DefaultWeight, <<"str", 0>>}

IsStr(id) == id \notin NonStrIds
\* isinstance(v, (int, float)); a bool is an int
IsNumber(v) == v[1] \in {"int", "float", "bool"}

\* dict operations: {}, k in d, d.keys(), d[k], d[k] = v
EmptyDict == <<>>
Keys(d) == {d[i][1] : i \in DOMAIN d}
Has(d, k) == k \in Keys(d)
KeyList(d) == [i \in 1..Len(d) |-> d[i][1]]
Get(d, k) == d[CHOOSE i \in DOMAIN d : d[i][1] = k][2]
Put(d, k, v) ==
  IF Has(d, k)
  THEN LET i == CHOOSE j \in DOMAIN d : d[j][1] = k
       IN SubSeq(d, 1, i - 1) \o <<<<k, v>>>> \o SubSeq(d, i + 1, Len(d))
  ELSE Append(d, <<k, v>>)

\* the outcome of a call: the exception raised, or "ok" and the value returned
Ok(v) == [exc |-> "ok", val |-> <<v>>]
Raise(e) == [exc |-> e, val |-> <<>>]

\* f"edge_{start_node_id}_{end_node_id}"
GenName(s, e) == "edge_" \o s \o "_" \o e

\* add_node that overwrites an existing node instead of raising
add_node_overwrite(n, id, v) ==
  IF ~IsStr(id) THEN [exc |-> "TypeError", nodes |-> n]
  ELSE IF ~IsNumber(v) THEN [exc |-> "TypeError", nodes |-> n]
  ELSE [exc |-> "ok", nodes |-> Put(n, id, v)]

\* add_node without the isinstance check of node_value
add_node_any_value(n, id, v) ==
  IF ~IsStr(id) THEN [exc |-> "TypeError", nodes |-> n]
  ELSE IF ~Has(n, id) THEN [exc |-> "ok", nodes |-> Put(n, id, v)]
  ELSE [exc |-> "ValueError", nodes |-> n]

\* add_node on the node table n: the exception raised (or "ok") and the table left behind
add_node(n, id, v) ==
  IF ~IsStr(id) THEN [exc |-> "TypeError", nodes |-> n]
  ELSE IF ~IsNumber(v) THEN [exc |-> "TypeError", nodes |-> n]
  ELSE IF ~Has(n, id) THEN [exc |-> "ok", nodes |-> Put(n, id, v)]
  ELSE [exc |-> "ValueError", nodes |-> n]

\* add_edge past its argument checks: the missing endpoints are added, the name is
\* checked, the edge is stored
add_edge_store(n, ed, en, s, e, sv, ev, name, w) ==
  LET r1 == IF ~Has(n, s) THEN add_node(n, s, sv) ELSE [exc |-> "ok", nodes |-> n]
      r2 == IF ~Has(r1.nodes, e) THEN add_node(r1.nodes, e, ev)
            ELSE [exc |-> "ok", nodes |-> r1.nodes]
      raise(x, n1) == [exc |-> x, nodes |-> n1, edges |-> ed, edge_names |-> en]
  IN
  IF r1.exc # "ok" THEN raise(r1.exc, r1.nodes)
  ELSE IF r2.exc # "ok" THEN raise(r2.exc, r2.nodes)
  ELSE IF name # NoName /\ name \in en THEN raise("ValueError", r2.nodes)
  ELSE
    LET ed1 == IF ~Has(ed, s) THEN Put(ed, s, EmptyDict) ELSE ed
        nm == IF name = NoName THEN GenName(s, e) ELSE name
    IN [exc |-> "ok", nodes |-> r2.nodes,
        edges |-> Put(ed1, s, Put(Get(ed1, s), e, <<w, nm>>)),
        edge_names |-> en \cup {nm}]

\* add_edge that raises on a missing endpoint instead of adding it
add_edge_reject_missing(n, ed, en, s, e, sv, ev, name, w) ==
  LET raise(x) == [exc |-> x, nodes |-> n, edges |-> ed, edge_names |-> en]
  IN
  IF ~IsStr(s) \/ ~IsStr(e) THEN raise("TypeError")
  ELSE IF ~IsNumber(w) THEN raise("TypeError")
  ELSE IF w[2] < 0 THEN raise("ValueError")
  ELSE IF ~Has(n, s) \/ ~Has(n, e) THEN raise("KeyError")
  ELSE add_edge_store(n, ed, en, s, e, sv, ev, name, w)

\* add_edge without the check of the sign of edge_weight
add_edge_any_weight(n, ed, en, s, e, sv, ev, name, w) ==
  LET raise(x) == [exc |-> x, nodes |-> n, edges |-> ed, edge_names |-> en]
  IN
  IF ~IsStr(s) \/ ~IsStr(e) THEN raise("TypeError")
  ELSE IF ~IsNumber(w) THEN raise("TypeError")
  ELSE add_edge_store(n, ed, en, s, e, sv, ev, name, w)

\* add_edge on the tables (n, ed, en): the exception raised (or "ok") and the tables left behind
add_edge(n, ed, en, s, e, sv, ev, name, w) ==
  LET raise(x) == [exc |-> x, nodes |-> n, edges |-> ed, edge_names |-> en]
  IN
  IF ~IsStr(s) \/ ~IsStr(e) THEN raise("TypeError")
  ELSE IF ~IsNumber(w) THEN raise("TypeError")
  ELSE IF w[2] < 0 THEN raise("ValueError")
  ELSE add_edge_store(n, ed, en, s, e, sv, ev, name, w)

get_nodes(n) == Ok(KeyList(n))

\* get_edge_weight that looks at the start node only
get_edge_weight_any_end(ed, s, e) ==
  IF Has(ed, s) THEN Ok(Get(ed, s)[1][2][1])
  ELSE Raise("KeyError")

get_edge_weight(ed, s, e) ==
  IF Has(ed, s) /\ Has(Get(ed, s), e) THEN Ok(Get(Get(ed, s), e)[1])
  ELSE Raise("KeyError")

get_node_value(n, id) ==
  IF ~Has(n, id) THEN Raise("KeyError") ELSE Ok(Get(n, id))

predecessors(n, ed, id) ==
  IF ~Has(n, id) THEN Raise("KeyError")
  ELSE Ok(KeyList(SelectSeq(ed, LAMBDA item : Has(item[2], id))))

successors(n, ed, id) ==
  IF ~Has(n, id) THEN Raise("KeyError")
  ELSE IF Has(ed, id) THEN Ok(KeyList(Get(ed, id)))
  ELSE Ok(<<>>)

successor_on_edge(ed, id, name) ==
  IF ~Has(ed, id) THEN Raise("KeyError")
  ELSE LET items == Get(ed, id)
           hits == {i \in DOMAIN items : items[i][2][2] = name}
       IN IF hits # {}
          THEN Ok(items[CHOOSE i \in hits : \A j \in hits : i <= j][1])
          ELSE Raise("KeyError")

in_degree(n, ed, id) ==
  LET p == predecessors(n, ed, id)
  IN IF p.exc # "ok" THEN p ELSE Ok(Len(p.val[1]))

\* out_degree that counts the start nodes of the edge table
out_degree_of_table(ed, id) ==
  IF Has(ed, id) THEN Ok(Len(ed)) ELSE Ok(0)

out_degree(ed, id) ==
  IF Has(ed, id) THEN Ok(Len(Get(ed, id))) ELSE Ok(0)

\* the edges stored, as (start, end, weight, name): the iteration of print_graph
StoredEdges(ed) ==
  UNION {{<<ed[i][1], ed[i][2][j][1], ed[i][2][j][2][1], ed[i][2][j][2][2]>> :
            j \in DOMAIN ed[i][2]} : i \in DOMAIN ed}

NoArgs == [id |-> "-", end |-> "-", value |-> DefaultValue, end_value |-> DefaultValue,
           name |-> NoName, weight |-> DefaultWeight]
Call(op, args) == [op |-> op] @@ args

Init ==
  /\ nodes = EmptyDict
  /\ edges = EmptyDict
  /\ edge_names = {}
  /\ call = Call("__init__", NoArgs)
  /\ result = Ok(None)
  /\ nops = 0

Query(op, args, r) ==
  /\ nops < MaxOps
  /\ nops' = nops + 1
  /\ call' = Call(op, args)
  /\ result' = r
  /\ UNCHANGED <<nodes, edges, edge_names>>

AddNode ==
  \E id \in Ids, v \in NodeValues :
    \E r \in {add_node(nodes, id, v)} :
       /\ nops < MaxOps
       /\ nops' = nops + 1
       /\ call' = Call("add_node", [NoArgs EXCEPT !.id = id, !.value = v])
       /\ result' = IF r.exc = "ok" THEN Ok(None) ELSE Raise(r.exc)
       /\ nodes' = r.nodes
       /\ UNCHANGED <<edges, edge_names>>

\* the add_edge calls tried: every combination of arguments for string ids and
\* weights that pass the checks of lines 16-23, and the calls those checks reject
\* (before any other argument is looked at) with the other arguments at their defaults
AddEdgeCalls ==
  {a \in [id : Ids, end : Ids, value : EdgeNodeValues, end_value : EdgeNodeValues,
          name : NameArgs, weight : Weights] :
     /\ (~IsStr(a.id) \/ ~IsStr(a.end) \/ ~IsNumber(a.weight) \/ a.weight[2] < 0)
        => /\ a.value = DefaultValue
           /\ a.end_value = DefaultValue
           /\ a.name = NoName
           /\ (~IsStr(a.id) \/ ~IsStr(a.end)) => a.weight = DefaultWeight
     /\ IsNumber(a.value) \/ IsNumber(a.end_value)}

AddEdge ==
  \E a \in AddEdgeCalls :
    \E r \in {add_edge(nodes, edges, edge_names, a.id, a.end, a.value, a.end_value,
                       a.name, a.weight)} :
       /\ nops < MaxOps
       /\ nops' = nops + 1
       /\ call' = Call("add_edge", a)
       /\ result' = IF r.exc = "ok" THEN Ok(None) ELSE Raise(r.exc)
       /\ nodes' = r.nodes
       /\ edges' = r.edges
       /\ edge_names' = r.edge_names

GetNodes == Query("get_nodes", NoArgs, get_nodes(nodes))

GetEdgeWeight ==
  \E s \in StrIds, e \in StrIds :
    Query("get_edge_weight", [NoArgs EXCEPT !.id = s, !.end = e], get_edge_weight(edges, s, e))

GetNodeValue ==
  \E id \in StrIds : Query("get_node_value", [NoArgs EXCEPT !.id = id], get_node_value(nodes, id))

Predecessors ==
  \E id \in StrIds : Query("predecessors", [NoArgs EXCEPT !.id = id], predecessors(nodes, edges, id))

Successors ==
  \E id \in StrIds : Query("successors", [NoArgs EXCEPT !.id = id], successors(nodes, edges, id))

SuccessorOnEdge ==
  \E id \in StrIds, name \in QueryNames :
    Query("successor_on_edge", [NoArgs EXCEPT !.id = id, !.name = name],
          successor_on_edge(edges, id, name))

InDegree ==
  \E id \in StrIds : Query("in_degree", [NoArgs EXCEPT !.id = id], in_degree(nodes, edges, id))

OutDegree ==
  \E id \in StrIds : Query("out_degree", [NoArgs EXCEPT !.id = id], out_degree(edges, id))

Next ==
  \/ AddNode
  \/ AddEdge
  \/ GetNodes
  \/ GetEdgeWeight
  \/ GetNodeValue
  \/ Predecessors
  \/ Successors
  \/ SuccessorOnEdge
  \/ InDegree
  \/ OutDegree

Spec == Init /\ [][Next]_vars

TypeOK ==
  /\ Keys(nodes) \subseteq StrIds
  /\ Keys(edges) \subseteq Keys(nodes)
  /\ \A s \in Keys(edges) : Keys(Get(edges, s)) \subseteq Keys(nodes) /\ Get(edges, s) # <<>>
  /\ Len(nodes) = Cardinality(Keys(nodes))
  /\ Len(edges) = Cardinality(Keys(edges))
  /\ nops \in 0..MaxOps
(***************************************************************************)
(* Properties.  In a step, call' is the call made and result' its outcome; *)
(* the unprimed tables are the graph before the call, the primed ones the  *)
(* graph after it.                                                         *)
(***************************************************************************)
IsAddEdge(c) == c.op = "add_edge"
IsAddNode(c) == c.op = "add_node"
EffectiveName(c) == IF c.name = NoName THEN GenName(c.id, c.end) ELSE c.name
EdgeFromTo(ed, s, e) == {x \in StoredEdges(ed) : x[1] = s /\ x[2] = e}

\* C1: an add_node or add_edge call that raises leaves nodes, edges and
\* edge_names exactly as they were before the call.
C1_FailedAddChangesNothing ==
  [][((IsAddNode(call') \/ IsAddEdge(call')) /\ result'.exc # "ok")
       => (nodes' = nodes /\ edges' = edges /\ edge_names' = edge_names)]_vars

\* C2 as stated: add_edge with a start or an end that is not a node raises, adds no
\* edge and does not create the missing endpoint.
C2_MissingEndpointRejected ==
  [][(IsAddEdge(call') /\ (~Has(nodes, call'.id) \/ ~Has(nodes, call'.end)))
       => (result'.exc # "ok" /\ edges' = edges /\ nodes' = nodes)]_vars

\* C2 amended: add_edge with string ids, a numeric weight >= 0, numeric node values
\* and a name that is omitted or not yet in edge_names, where start or end is not a
\* node, succeeds: each missing endpoint is created with the node value passed for
\* it, the nodes already there keep their values, and the edge is stored.
C2_MissingEndpointCreated ==
  [][(/\ IsAddEdge(call')
      /\ (~Has(nodes, call'.id) \/ ~Has(nodes, call'.end))
      /\ IsStr(call'.id) /\ IsStr(call'.end)
      /\ IsNumber(call'.weight) /\ call'.weight[2] >= 0
      /\ IsNumber(call'.value) /\ IsNumber(call'.end_value)
      /\ (call'.name = NoName \/ call'.name \notin edge_names))
       => (/\ result'.exc = "ok"
           /\ Keys(nodes') = Keys(nodes) \cup {call'.id, call'.end}
           /\ \A id \in Keys(nodes) : Get(nodes', id) = Get(nodes, id)
           /\ ~Has(nodes, call'.id) => Get(nodes', call'.id) = call'.value
           /\ (~Has(nodes, call'.end) /\ call'.end # call'.id)
                 => Get(nodes', call'.end) = call'.end_value
           /\ <<call'.id, call'.end, call'.weight, EffectiveName(call')>>
                 \in StoredEdges(edges'))]_vars

\* the first call on a graph was an add_edge between two distinct ids: it succeeded
\* and both endpoints are nodes now
C2_Witness ==
  /\ nops = 1
  /\ IsAddEdge(call) /\ result.exc = "ok"
  /\ call.id # call.end
  /\ Has(nodes, call.id) /\ Has(nodes, call.end)

\* C3 as stated: add_edge with a weight <= 0 raises and adds no edge, and every
\* stored edge has a weight > 0.
C3_NonPositiveWeightRejected ==
  [][/\ (IsAddEdge(call') /\ IsNumber(call'.weight) /\ call'.weight[2] <= 0)
          => (result'.exc # "ok" /\ edges' = edges)
     /\ \A x \in StoredEdges(edges') : x[3][2] > 0]_vars

\* C3 amended: add_edge with a weight < 0 raises and changes nothing, and every
\* stored edge has a weight >= 0.
C3_NegativeWeightRejected ==
  [][/\ (IsAddEdge(call') /\ IsNumber(call'.weight) /\ call'.weight[2] < 0)
          => (/\ result'.exc # "ok"
              /\ nodes' = nodes /\ edges' = edges /\ edge_names' = edge_names)
     /\ \A x \in StoredEdges(edges') : IsNumber(x[3]) /\ x[3][2] >= 0]_vars

\* an add_edge with weight -1 has just raised ValueError on a graph that stores an
\* edge of weight 0
C3_Witness ==
  /\ IsAddEdge(call) /\ call.weight = <<"int", -1>> /\ result.exc = "ValueError"
  /\ \E x \in StoredEdges(edges) : x[3] = <<"int", 0>>

\* C4: an add_edge whose name, given or generated, is the name of a stored edge
\* raises, and no two stored edges carry the same name.
C4_EdgeNamesUnique ==
  [][/\ (IsAddEdge(call') /\ \E x \in StoredEdges(edges) : x[4] = EffectiveName(call'))
          => result'.exc # "ok"
     /\ \A x, y \in StoredEdges(edges') : x[4] = y[4] => x = y]_vars

\* C5 as stated: add_node with an id that is a node raises the duplicate-node error
\* (the ValueError of line 57) and get_node_value(id) returns what it returned before.
C5_DuplicateNodeRejected ==
  [][(IsAddNode(call') /\ Has(nodes, call'.id))
       => (/\ result'.exc = "ValueError"
           /\ get_node_value(nodes', call'.id) = get_node_value(nodes, call'.id))]_vars

\* C5 amended: add_node with an id that is a node raises, the duplicate-node error
\* (ValueError) when the value is numeric and TypeError when it is not, and
\* get_node_value(id) returns what it returned before.
C5_DuplicateNodeFails ==
  [][(IsAddNode(call') /\ Has(nodes, call'.id))
       => (/\ result'.exc = (IF IsNumber(call'.value) THEN "ValueError" ELSE "TypeError")
           /\ get_node_value(nodes', call'.id) = get_node_value(nodes, call'.id))]_vars

\* the second call was an add_node that raised the duplicate-node error
C5_Witness ==
  /\ nops = 2
  /\ IsAddNode(call) /\ result.exc = "ValueError"
  /\ Has(nodes, call.id)

\* C6: for an id that is not a node, predecessors, successors, in_degree and
\* out_degree each raise KeyError.
C6_QueriesRejectMissingNode ==
  \A id \in Ids \ Keys(nodes) :
    /\ predecessors(nodes, edges, id).exc = "KeyError"
    /\ successors(nodes, edges, id).exc = "KeyError"
    /\ in_degree(nodes, edges, id).exc = "KeyError"
    /\ out_degree(edges, id).exc = "KeyError"

\* C7: add_node(id, v) with a string id that is not a node raises TypeError and
\* leaves id out of the graph when v is not numeric, and succeeds with
\* get_node_value(id) = v when v is numeric; no later call changes what
\* get_node_value returns for a node.
C7_NodeValueKept ==
  [][/\ (IsAddNode(call') /\ IsStr(call'.id) /\ ~Has(nodes, call'.id))
          => IF IsNumber(call'.value)
             THEN result'.exc = "ok" /\ get_node_value(nodes', call'.id) = Ok(call'.value)
             ELSE result'.exc = "TypeError" /\ ~Has(nodes', call'.id)
     /\ \A id \in Keys(nodes) : get_node_value(nodes', id) = get_node_value(nodes, id)]_vars

\* a node holds the value 10.0, which only add_node passes, and the call after that
\* add_node was a successful add_edge
C7_Witness ==
  /\ nops = 2
  /\ IsAddEdge(call) /\ result.exc = "ok"
  /\ \E id \in Keys(nodes) : get_node_value(nodes, id) = Ok(<<"float", 10>>)

\* C8: get_edge_weight(s, e) raises KeyError when no edge from s to e is stored and
\* returns the weight of the stored edge otherwise, and leaves the graph as it was;
\* after a successful add_edge(s, e, weight w) it returns w.
C8_EdgeWeightLookup ==
  [][/\ call'.op = "get_edge_weight"
          => /\ nodes' = nodes /\ edges' = edges /\ edge_names' = edge_names
             /\ IF EdgeFromTo(edges, call'.id, call'.end) = {}
                THEN result' = Raise("KeyError")
                ELSE \E x \in EdgeFromTo(edges, call'.id, call'.end) : result' = Ok(x[3])
     /\ (IsAddEdge(call') /\ result'.exc = "ok")
          => get_edge_weight(edges', call'.id, call'.end) = Ok(call'.weight)]_vars

\* get_edge_weight has just returned the weight 0 of an edge stored by the call before
C8_Witness ==
  /\ nops = 2
  /\ call.op = "get_edge_weight" /\ result = Ok(<<"int", 0>>)

\* C9: an edge named n from s to e, once stored, stays: after any further call
\* successor_on_edge(s, n) returns e.
C9_EdgesPersist ==
  [][\A x \in StoredEdges(edges) : successor_on_edge(edges', x[1], x[4]) = Ok(x[2])]_vars

\* C10: for every node, in_degree is the length of predecessors and out_degree the
\* length of successors, and b is among successors(a) exactly when a is among
\* predecessors(b).
Elems(list) == {list[i] : i \in DOMAIN list}
C10_DegreesAgree ==
  /\ \A id \in Keys(nodes) :
       /\ in_degree(nodes, edges, id) = Ok(Len(predecessors(nodes, edges, id).val[1]))
       /\ out_degree(edges, id) = Ok(Len(successors(nodes, edges, id).val[1]))
  /\ \A a, b \in Keys(nodes) :
       b \in Elems(successors(nodes, edges, a).val[1])
         <=> a \in Elems(predecessors(nodes, edges, b).val[1])

\* a node with two incoming edges
C10_Witness ==
  \E id \in Keys(nodes) : in_degree(nodes, edges, id) = Ok(2)

====
